---- MODULE Spec2Model ----
(***************************************************************************)
(* A model of cdvr_find_pass.py: one run of the script, from the command   *)
(* line to the process exit.                                               *)
(*                                                                         *)
(* Python values.  An optional value (dict.get(key, None), an argparse     *)
(* default of None) is None == <<>> or Some(v) == <<v>>.  A string that    *)
(* the code searches with `in` (titles, ID, JobID) is a tuple of           *)
(* one-character strings, as are FileID and the file names, so `in` is a   *)
(* real substring test; rule ids and pass names are TLA+ strings.          *)
(* A JSON object whose optional keys the code reads with .get() is a       *)
(* record holding an optional value per key; Airing.Raw is a function      *)
(* whose DOMAIN is the set of keys it holds.                               *)
(*                                                                         *)
(* Exceptions.  No exception is caught anywhere: a request that fails and  *)
(* a missing dict key both end the run with a traceback and exit code 1.   *)
(* The keys the code indexes without .get() (ID, Skipped, Airing, Title,   *)
(* the rules' ID and Name, format.filename) are present in every answer.   *)
(***************************************************************************)
EXTENDS Integers, Sequences, FiniteSets, TLC

VARIABLES
    argv,        \* the command line: [title, season_number, episode_number, version]
    server,      \* what the Channels DVR server holds: [rules, jobs, files]
    pc,          \* position of the main program
    out,         \* what has been printed to standard output, in order
    calls,       \* the network calls issued so far, in order
    passes,      \* __main__'s passes: {rule ID: pass name}
    programs,    \* matching_programs: a dict with keys among scheduled, library
    key,         \* update_program_list's key / the section being displayed
    pending,     \* the list a loop is iterating over
    idx,         \* the position of that loop in pending
    fault,       \* "none", or the kind of the uncaught exception that ended the run
    exit_code    \* None while running, else Some(process exit status)

vars == <<argv, server, pc, out, calls, passes, programs, key, pending, idx,
          fault, exit_code>>

-----------------------------------------------------------------------------
(* Bounds of the model.                                                    *)

MaxJobs == 1
MaxFiles == 2
MaxRules == 1
MaxSeason == 1
MaxEpisode == 1

-----------------------------------------------------------------------------
(* Python values.                                                          *)

None == <<>>
Some(v) == <<v>>

\* bool(x) for an optional int: None and 0 are falsy.
TruthyInt(o) == o # None /\ o[1] # 0

\* bool(x) for an optional TLA+ string: None and "" are falsy.
TruthyStr(o) == o # None /\ o[1] # ""

\* bool(x) for an optional tuple (a char string, a list) or dict: None and the
\* empty one are falsy.
TruthySeq(o) == o # None /\ o[1] # <<>>

\* needle in hay, for strings.
Contains(needle, hay) ==
    \E i \in 0..(Len(hay) - Len(needle)) :
        SubSeq(hay, i + 1, i + Len(needle)) = needle

\* str(x) inside an f-string, for an optional char string.
Str(o) == IF o = None THEN <<"N", "o", "n", "e">> ELSE o[1]

\* The empty dict.
EmptyDict == [k \in {} |-> None]

\* All sequences over S of length at most n.
RECURSIVE SeqsUpTo(_, _)
SeqsUpTo(S, n) ==
    IF n = 0 THEN {<<>>}
    ELSE LET shorter == SeqsUpTo(S, n - 1)
         IN  shorter \cup {Append(s, e) : s \in {t \in shorter : Len(t) = n - 1}, e \in S}

-----------------------------------------------------------------------------
(* Constants of the script.                                                *)

VERSION == "2023.08.12.2305"
NOTHING_FOUND == "nothing found!"
Dash == <<"-">>
DashCh == <<"-", "c", "h">>
SeriesCategories == {"Episode", "Show", "Series"}

-----------------------------------------------------------------------------
(* Program: the class.                                                     *)

\* Program._get_category
_get_category(program_json) ==
    LET categories == program_json.Airing.Categories
    IN  IF TruthySeq(categories) THEN categories[1][1] ELSE "Program"

\* Program._get_file_name decides whether the media info is fetched: only
\* when FileID is falsy and the ID holds no "-".
NeedsMediaInfoNoDashTest(program_json) ==
    ~TruthySeq(program_json.FileID)

NeedsMediaInfo(program_json) ==
    ~TruthySeq(program_json.FileID) /\ ~Contains(Dash, program_json.ID)

\* The media info the server answers for a file id; it holds
\* format.filename.
MediaInfo(file_id) == [format |-> [filename |-> <<"f">> \o file_id]]

\* Program._get_file_name, given that the network call (if any) succeeded.
_get_file_name(program_json) ==
    IF NeedsMediaInfo(program_json)
    THEN Some(MediaInfo(program_json.ID).format.filename)
    ELSE None

\* Program.__init__
Program(program_json) ==
    [program        |-> program_json,
     category       |-> _get_category(program_json),
     episode_number |-> program_json.Airing.EpisodeNumber,
     file_name      |-> _get_file_name(program_json),
     pass_id        |-> program_json.RuleID,
     season_number  |-> program_json.Airing.SeasonNumber,
     title          |-> program_json.Airing.Title]

\* Program.is_imported
is_imported(program) == program.program.ImportPath # None

\* Program.is_manual_recording
is_manual_recording(program) ==
    \/ Contains(DashCh, program.program.ID)
    \/ LET job_id == program.program.JobID
       IN  TruthySeq(job_id) /\ Contains(DashCh, job_id[1])

-----------------------------------------------------------------------------
(* Functions.                                                              *)

\* convert_utc_time_to_local_time: the local rendering of a UTC time.
convert_utc_time_to_local_time(utc_time) == <<"local", utc_time>>

\* get_raw_data
get_raw_data(program) == program.program.Airing.Raw

\* The test of update_program_list's loop body: the value of is_a_match.
is_a_match(program_json, title, season_number, episode_number) ==
    IF Contains(title, program_json.Airing.Title)
    THEN IF TruthyInt(season_number)
         THEN LET program_season_num == program_json.Airing.SeasonNumber
              IN  IF TruthyInt(program_season_num) /\ season_number = program_season_num
                  THEN IF TruthyInt(episode_number)
                       THEN LET program_episode_num == program_json.Airing.EpisodeNumber
                            IN  /\ TruthyInt(program_episode_num)
                                /\ episode_number = program_episode_num
                       ELSE TRUE
                  ELSE FALSE
         ELSE TRUE
    ELSE FALSE

\* dict.get(k, None)
DictGet(dict, k) == IF k \in DOMAIN dict THEN Some(dict[k]) ELSE None

\* dict.get(key, []) on matching_programs.
ProgramsGet(dict, k) == IF k \in DOMAIN dict THEN dict[k] ELSE <<>>

\* get_passes' loop: the dict built from the rules, a later rule replacing an
\* earlier one with the same ID.
PassesOf(rules) ==
    [id \in {rules[i].ID : i \in DOMAIN rules} |->
        LET last == CHOOSE i \in DOMAIN rules :
                        /\ rules[i].ID = id
                        /\ \A j \in DOMAIN rules : rules[j].ID = id => j <= i
        IN  rules[last].Name]

\* passes.get(pass_id, None)
PassesGet(dict, pass_id) ==
    IF pass_id # None /\ pass_id[1] \in DOMAIN dict THEN Some(dict[pass_id[1]]) ELSE None

\* The list comprehension of get_scheduled_recordings.
NotSkipped(jobs) == SelectSeq(jobs, LAMBDA recording : ~recording.Skipped)

-----------------------------------------------------------------------------
(* Standard output.                                                        *)

Line(kind) == [kind |-> kind, entry |-> None]
ProgramLine(entry) == [kind |-> "program", entry |-> Some(entry)]
Header(k) == IF k = "scheduled" THEN Line("scheduled_header") ELSE Line("library_header")

\* The part of display_passes that builds string_to_print for one program
\* (the start times the server sends have the format strptime expects):
\* the printed entry, or the exception raised while building it.
\*   suffix    the Sx / Ey text, for the series-like categories
\*   class     "import", "manual" or "pass": which of the three branches ran
\*   pass_name the name after "triggered by pass:", in the third branch
\*   file      the text of the quoted file-name line, when one is added
\*   when      the local time of the "will be recorded on" line, when one is added
Entry(program, suffix, class, pass_name, file, when) ==
    [raised |-> "none", src |-> program.program,
     category |-> program.category, title |-> program.title, suffix |-> suffix,
     class |-> class, pass_name |-> pass_name, file |-> file, when |-> when]

Raised(program, exception) ==
    [raised |-> exception, src |-> program.program,
     category |-> program.category, title |-> program.title, suffix |-> <<>>,
     class |-> "none", pass_name |-> None, file |-> None, when |-> None]

SeasonEpisodeSuffix(program) ==
    IF program.category \in SeriesCategories
    THEN (IF TruthyInt(program.season_number)
          THEN <<"S", program.season_number[1]>> ELSE <<>>)
         \o (IF TruthyInt(program.episode_number)
             THEN <<"E", program.episode_number[1], " ">> ELSE <<>>)
    ELSE <<>>

string_to_print(passes_dict, program) ==
    LET file_name == program.file_name
        suffix    == SeasonEpisodeSuffix(program)
        raw       == get_raw_data(program)
    IN  IF is_imported(program)
        THEN Entry(program, suffix, "import", None, Some(Str(file_name)), None)
        ELSE IF is_manual_recording(program)
        THEN IF TruthySeq(file_name)
             THEN Entry(program, suffix, "manual", None, Some(file_name[1]), None)
             ELSE IF TruthySeq(raw)
                  THEN IF "startTime" \in DOMAIN raw[1]
                       THEN Entry(program, suffix, "manual", None, None,
                                  Some(convert_utc_time_to_local_time(raw[1]["startTime"])))
                       ELSE Raised(program, "KeyError")
                  ELSE Entry(program, suffix, "manual", None, None, None)
        ELSE LET found     == PassesGet(passes_dict, program.pass_id)
                 pass_name == IF TruthyStr(found) THEN found[1] ELSE NOTHING_FOUND
             IN  IF TruthySeq(file_name)
                 THEN Entry(program, suffix, "pass", Some(pass_name), Some(file_name[1]), None)
                 ELSE LET start_time == IF TruthySeq(raw) THEN DictGet(raw[1], "startTime")
                                                          ELSE None
                      IN  IF TruthyStr(start_time)
                          THEN Entry(program, suffix, "pass", Some(pass_name), None,
                                     Some(convert_utc_time_to_local_time(start_time[1])))
                          ELSE Entry(program, suffix, "pass", Some(pass_name), None, None)

-----------------------------------------------------------------------------
(* The main program, one action per step.                                  *)

\* The run ends: sys.exit, the end of the script, or an uncaught exception.
Exit(status) == /\ pc' = "exited"
                /\ exit_code' = Some(status)

\* Where get_matching_programs / __main__ continue when update_program_list
\* returns.
AfterUpdateReportEarly(k) == "report"
AfterUpdate(k) == IF k = "scheduled" THEN "get_files" ELSE "report"

\* parser.parse_args(): --title is required; without it argparse prints the
\* usage to standard error and exits with status 2.
ParseArgs ==
    /\ pc = "start"
    /\ IF argv.title = None
       THEN Exit(2)
       ELSE pc' = "parsed" /\ UNCHANGED exit_code
    /\ UNCHANGED <<argv, server, out, calls, passes, programs, key, pending, idx, fault>>

\* if version: print(VERSION); sys.exit()
VersionExit ==
    /\ pc = "parsed"
    /\ argv.version
    /\ out' = Append(out, Line(VERSION))
    /\ Exit(0)
    /\ UNCHANGED <<argv, server, calls, passes, programs, key, pending, idx, fault>>

\* display_server_url() and print('Looking for matches...')
display_server_url ==
    /\ pc = "parsed"
    /\ ~argv.version
    /\ out' = out \o <<Line("server_url"), Line("looking")>>
    /\ pc' = "get_passes"
    /\ UNCHANGED <<argv, server, calls, passes, programs, key, pending, idx, fault, exit_code>>

\* passes = get_passes(), the request answered.
get_passes ==
    /\ pc = "get_passes"
    /\ calls' = Append(calls, "rules")
    /\ passes' = PassesOf(server.rules)
    /\ pc' = "get_jobs"
    /\ UNCHANGED <<argv, server, out, programs, key, pending, idx, fault, exit_code>>

\* A loop over `list` starts at `at`, or, the list being empty, the code
\* after the loop runs.
StartLoop(list, at, after) ==
    /\ pending' = list
    /\ idx' = 1
    /\ pc' = IF list = <<>> THEN after ELSE at

\* The loop moves to its next element or, past the last one, ends.
StepLoop(after) ==
    /\ UNCHANGED pending
    /\ IF idx < Len(pending)
       THEN idx' = idx + 1 /\ pc' = pc
       ELSE idx' = idx /\ pc' = after

\* get_scheduled_recordings(), the request answered, and the call of
\* update_program_list for 'scheduled' up to its loop.
get_scheduled_recordings ==
    /\ pc = "get_jobs"
    /\ calls' = Append(calls, "jobs")
    /\ key' = "scheduled"
    /\ StartLoop(NotSkipped(server.jobs), "update", AfterUpdate("scheduled"))
    /\ UNCHANGED <<argv, server, out, passes, programs, fault, exit_code>>

\* get_library_programs(), the request answered, and the call of
\* update_program_list for 'library' up to its loop.
get_library_programs ==
    /\ pc = "get_files"
    /\ calls' = Append(calls, "files")
    /\ key' = "library"
    /\ StartLoop(server.files, "update", AfterUpdate("library"))
    /\ UNCHANGED <<argv, server, out, passes, programs, fault, exit_code>>

\* One iteration of update_program_list's loop; a match is wrapped in a
\* Program, whose constructor fetches the media info when it needs it.
update_program_list ==
    /\ pc = "update"
    /\ LET program == pending[idx]
       IN  IF is_a_match(program, argv.title[1], argv.season_number, argv.episode_number)
           THEN /\ calls' = IF NeedsMediaInfo(program)
                            THEN Append(calls, "mediainfo") ELSE calls
                /\ programs' = [k \in DOMAIN programs \cup {key} |->
                                   IF k = key
                                   THEN Append(ProgramsGet(programs, key), Program(program))
                                   ELSE programs[k]]
           ELSE UNCHANGED <<calls, programs>>
    /\ StepLoop(AfterUpdate(key))
    /\ UNCHANGED <<argv, server, out, passes, key, fault, exit_code>>

\* The request the program is about to send, if it is at one.
NextRequest ==
    CASE pc = "get_passes" -> Some("rules")
      [] pc = "get_jobs"   -> Some("jobs")
      [] pc = "get_files"  -> Some("files")
      [] pc = "update" ->
            IF /\ is_a_match(pending[idx], argv.title[1], argv.season_number,
                           argv.episode_number)
               /\ NeedsMediaInfo(pending[idx])
            THEN Some("mediainfo") ELSE None
      [] OTHER -> None

\* requests.get raises (no server, a refused connection, a bad answer): the
\* exception is caught nowhere and ends the run with a traceback.
NetworkFault ==
    /\ NextRequest # None
    /\ calls' = Append(calls, NextRequest[1])
    /\ fault' = "network"
    /\ Exit(1)
    /\ UNCHANGED <<argv, server, out, passes, programs, key, pending, idx>>

\* if not programs: print('no matches found.'), then the call of
\* show_passes_for_every_program.
report_no_matches ==
    /\ pc = "report"
    /\ out' = IF DOMAIN programs = {}
              THEN out \o <<Line("no_matches"), Line("blank")>> ELSE out
    /\ key' = "scheduled"
    /\ pc' = "show"
    /\ UNCHANGED <<argv, server, calls, passes, programs, pending, idx, fault, exit_code>>

\* What follows a section of show_passes_for_every_program.
AfterSection(k) == IF k = "scheduled" THEN "show" ELSE "end"

\* One `if` of show_passes_for_every_program: the section's heading, when the
\* section has programs, and the call of display_passes up to its loop.
show_passes_for_every_program ==
    /\ pc = "show"
    /\ LET list == ProgramsGet(programs, key)
       IN  IF list # <<>>
           THEN /\ out' = out \o <<Header(key), Line("blank")>>
                /\ StartLoop(list, "display", "display")
                /\ UNCHANGED key
           ELSE /\ UNCHANGED <<out, pending, idx>>
                /\ pc' = AfterSection(key)
                /\ key' = "library"
    /\ UNCHANGED <<argv, server, calls, passes, programs, fault, exit_code>>

\* One iteration of display_passes' loop and, after the last one, the
\* print() that closes the section.
display_passes ==
    /\ pc = "display"
    /\ LET entry == string_to_print(passes, pending[idx])
       IN  IF entry.raised # "none"
           THEN /\ fault' = entry.raised
                /\ Exit(1)
                /\ UNCHANGED <<out, pending, idx, key>>
           ELSE /\ out' = IF idx < Len(pending)
                          THEN Append(out, ProgramLine(entry))
                          ELSE out \o <<ProgramLine(entry), Line("blank")>>
                /\ StepLoop(AfterSection(key))
                /\ key' = IF idx < Len(pending) THEN key ELSE "library"
                /\ UNCHANGED <<fault, exit_code>>
    /\ UNCHANGED <<argv, server, calls, passes, programs>>

\* The script ends.
EndOfScript ==
    /\ pc = "end"
    /\ Exit(0)
    /\ UNCHANGED <<argv, server, out, calls, passes, programs, key, pending, idx, fault>>

Next ==
    \/ ParseArgs
    \/ VersionExit
    \/ display_server_url
    \/ get_passes
    \/ get_scheduled_recordings
    \/ get_library_programs
    \/ update_program_list
    \/ NetworkFault
    \/ report_no_matches
    \/ show_passes_for_every_program
    \/ display_passes
    \/ EndOfScript

-----------------------------------------------------------------------------
(* The inputs of a run: the command line and what the server holds.        *)

Argv(title, season_number, episode_number, version) ==
    [title |-> title, season_number |-> season_number,
     episode_number |-> episode_number, version |-> version]

\* One element of /dvr/jobs or /dvr/files.
Json(id, skipped, import_path, file_id, job_id, rule_id, title, season, episode, categories, raw) ==
    [ID |-> id, Skipped |-> skipped, ImportPath |-> import_path,
     FileID |-> file_id, JobID |-> job_id, RuleID |-> rule_id,
     Airing |-> [Title |-> title, SeasonNumber |-> season, EpisodeNumber |-> episode,
                 Categories |-> categories, Raw |-> raw]]

Rule(id, name) == [ID |-> id, Name |-> name]

\* Airing.Raw holding the given keys.
RawWith(keys) == [k \in keys |-> IF k = "startTime" THEN "2023-06-24T15:00Z"
                                                    ELSE "2023-06-24T16:00Z"]

TitleA   == <<"a">>
TitleUpA == <<"A">>
TitleBA  == <<"b", "a">>
TitleB   == <<"b">>
IdPlain  == <<"1", "2">>
IdDash   == <<"1", "-", "7">>
IdManual == <<"1", "-", "c", "h", "7">>
FileId9  == <<"9">>
Episode  == Some(<<"Episode">>)

\* The server gives every job its own ID and every file its own ID: the
\* first character of the ID of the i-th element of a list is the digit i.
Digits == <<"1", "2", "3", "4", "5", "6", "7", "8", "9">>
Renumber(list) ==
    [i \in DOMAIN list |-> [list[i] EXCEPT !.ID = <<Digits[i]>> \o Tail(@)]]

World(rules, jobs, files) ==
    [rules |-> rules, jobs |-> Renumber(jobs), files |-> Renumber(files)]

InitWith(argvs, rules, jobs, files) ==
    /\ argv \in argvs
    /\ \E r \in SeqsUpTo(rules, MaxRules), j \in SeqsUpTo(jobs, MaxJobs),
          f \in SeqsUpTo(files, MaxFiles) : server = World(r, j, f)
    /\ pc = "start"
    /\ out = <<>>
    /\ calls = <<>>
    /\ passes = EmptyDict
    /\ programs = EmptyDict
    /\ key = "scheduled"
    /\ pending = <<>>
    /\ idx = 1
    /\ fault = "none"
    /\ exit_code = None

\* Runs that differ in what needs a media-info lookup: the title given or
\* not, the version flag, and records with and without FileID, with and
\* without "-" in the ID, matching or not, skipped or not, and manual
\* recordings whose Airing.Raw holds a startTime or not.
RunArgvs == {Argv(t, None, None, v) : t \in {None, Some(TitleA)}, v \in BOOLEAN}

RunJobs ==
    {Json(IdPlain, FALSE, None, None, None, Some("r1"), TitleA, None, None, None, None),
     Json(IdPlain, FALSE, None, None, None, Some("r1"), TitleB, None, None, None, None),
     Json(IdPlain, TRUE, None, None, None, Some("r1"), TitleA, None, None, None, None),
     Json(IdManual, FALSE, None, None, None, None, TitleA, None, None, None,
          Some(RawWith({"startTime", "endTime"}))),
     Json(IdManual, FALSE, None, None, None, None, TitleA, None, None, None,
          Some(RawWith({"endTime"})))}

RunFiles ==
    {Json(IdPlain, FALSE, None, f, None, Some("r1"), TitleA, None, None, None, None) :
        f \in {None, Some(<<>>), Some(FileId9)}}
    \cup {Json(IdDash, FALSE, None, None, None, Some("r1"), TitleA, None, None, None, None),
          Json(IdPlain, FALSE, None, None, None, Some("r1"), TitleB, None, None, None, None)}

RunRules == {Rule("r1", "P1")}

Init == InitWith(RunArgvs, RunRules, RunJobs, RunFiles)
Spec == Init /\ [][Next]_vars

\* Runs that differ in the filter and in the fields it reads.
OptNumbers(max) == {None} \cup {Some(n) : n \in 0..max}

FilterArgvs ==
    {Argv(Some(TitleA), s, e, FALSE) :
        s \in OptNumbers(MaxSeason), e \in OptNumbers(MaxEpisode)}
    \cup {Argv(Some(TitleA), None, None, TRUE)}

FilterJobs ==
    {Json(IdDash, sk, None, None, None, Some("r1"), t, s, e, Episode, None) :
        sk \in BOOLEAN, t \in {TitleA, TitleUpA, TitleBA},
        s \in OptNumbers(MaxSeason), e \in OptNumbers(MaxEpisode)}

FilterFiles ==
    {Json(IdDash, FALSE, None, None, None, Some("r1"), t, s, None, Episode, None) :
        t \in {TitleA, TitleUpA, TitleBA}, s \in {None, Some(1)}}

FilterRules == {Rule("r1", "P1")}

InitFilter == InitWith(FilterArgvs, FilterRules, FilterJobs, FilterFiles)
SpecFilter == InitFilter /\ [][Next]_vars

\* Runs that differ in the fields the report reads.
ReportArgvs == {Argv(Some(TitleA), None, None, v) : v \in BOOLEAN}

ReportRaws == {None} \cup {Some(RawWith(keys)) : keys \in
                              {{}, {"endTime"}, {"startTime", "endTime"}}}

ReportJobs ==
    {Json(id, FALSE, imp, f, j, r, TitleA, Some(1), Some(1), Episode, raw) :
        id \in {IdPlain, IdDash, IdManual}, imp \in {None, Some("/imports/a.mpg")},
        f \in {None, Some(FileId9)}, j \in {None, Some(IdManual)},
        r \in {None, Some("r1"), Some("r2")}, raw \in ReportRaws}

ReportFiles ==
    {Json(IdPlain, FALSE, imp, f, None, Some("r1"), TitleA, None, None, None, None) :
        imp \in {None, Some("/imports/a.mpg")}, f \in {None, Some(FileId9)}}

ReportRules == {Rule("r1", "P1"), Rule("r1", "")}

InitReport == InitWith(ReportArgvs, ReportRules, ReportJobs, ReportFiles)
SpecReport == InitReport /\ [][Next]_vars

-----------------------------------------------------------------------------
(* Vocabulary of the claims.                                               *)

Range(seq) == {seq[i] : i \in DOMAIN seq}

Printed(kind) == \E i \in DOMAIN out : out[i].kind = kind

\* A line of the report proper: a section or the "no matches found." message.
ReportPrinted ==
    \/ Printed("scheduled_header")
    \/ Printed("library_header")
    \/ Printed("program")
    \/ Printed("no_matches")

\* The run got past get_matching_programs: every request was answered.
ReachedReport ==
    \/ pc \in {"report", "show", "display", "end"}
    \/ pc = "exited" /\ Printed("looking") /\ fault # "network"

\* The run reached the report and is over.
ReportRunOver == pc = "exited" /\ Printed("looking") /\ fault # "network"

HeaderKind(k) == IF k = "scheduled" THEN "scheduled_header" ELSE "library_header"
HeaderAt(k) == CHOOSE i \in DOMAIN out : out[i].kind = HeaderKind(k)

\* The entries printed under the heading of section k.
SectionEntries(k) ==
    IF ~Printed(HeaderKind(k)) THEN {}
    ELSE {out[i].entry[1] : i \in
            {j \in DOMAIN out :
                /\ out[j].kind = "program"
                /\ j > HeaderAt(k)
                /\ k = "scheduled" /\ Printed("library_header") => j < HeaderAt("library")}}

SectionSources(k) == {e.src : e \in SectionEntries(k)}

AllEntries == {out[i].entry[1] : i \in {j \in DOMAIN out : out[j].kind = "program"}}

\* The collection update_program_list is given for key k.
Collection(k) == IF k = "scheduled" THEN NotSkipped(server.jobs) ELSE server.files

\* The matching rule as the specification words it: a filter applies when
\* it is given.
ClaimedMatch(rec) ==
    /\ Contains(argv.title[1], rec.Airing.Title)
    /\ argv.season_number # None => rec.Airing.SeasonNumber = argv.season_number
    /\ (argv.season_number # None /\ argv.episode_number # None)
          => rec.Airing.EpisodeNumber = argv.episode_number

\* The classification as the specification words it.
ClaimedClass(rec) ==
    IF rec.ImportPath # None THEN "import"
    ELSE IF \/ Contains(DashCh, rec.ID)
            \/ rec.JobID # None /\ Contains(DashCh, rec.JobID[1])
         THEN "manual"
         ELSE "pass"

\* A record whose file name the constructor has to ask the server for.
ClaimedLookup(rec) ==
    /\ rec.FileID = None \/ rec.FileID = Some(<<>>)
    /\ \A i \in DOMAIN rec.ID : rec.ID[i] # "-"

\* How many elements of `list` match the filter and need that lookup.
Lookups(list) ==
    Cardinality({i \in DOMAIN list :
        /\ is_a_match(list[i], argv.title[1], argv.season_number, argv.episode_number)
        /\ ClaimedLookup(list[i])})

Rep(x, n) == [i \in 1..n |-> x]

\* The requests other than the media-info lookups, in order.
ListCalls == SelectSeq(calls, LAMBDA c : c # "mediainfo")

IsPrefix(a, b) == Len(a) <= Len(b) /\ SubSeq(b, 1, Len(a)) = a

-----------------------------------------------------------------------------
(* The claims.                                                             *)

\* C1 -- update_program_list puts a record of the scheduled or of the library
\* collection in the result if and only if its title contains the title
\* substring, its season number equals the season filter if one is given, and
\* its episode number equals the episode filter if one is given besides the
\* season; no match leaves the result empty and raises nothing.
C1_MatchIffFilterGiven ==
    pc = "report" =>
        /\ fault = "none"
        /\ \A k \in {"scheduled", "library"} :
              {p.program : p \in Range(ProgramsGet(programs, k))}
                  = {rec \in Range(Collection(k)) : ClaimedMatch(rec)}

\* C1, the part the code keeps: the same, for the runs whose season and
\* episode filters are absent or not 0.
C1_MatchIffNonZeroFilter ==
    (pc = "report" /\ argv.season_number # Some(0) /\ argv.episode_number # Some(0)) =>
        \A k \in {"scheduled", "library"} :
            {p.program : p \in Range(ProgramsGet(programs, k))}
                = {rec \in Range(Collection(k)) : ClaimedMatch(rec)}

\* C2 -- when the report is over, every matched program has been reported in
\* its section with exactly one classification, the one the precedence
\* import, manual, rule-triggered gives for its record.
C2_EveryMatchReportedByPrecedence ==
    ReportRunOver =>
        \A k \in {"scheduled", "library"} :
            \A p \in Range(ProgramsGet(programs, k)) :
                /\ \E e \in SectionEntries(k) : e.src = p.program
                /\ \A e \in SectionEntries(k) :
                      e.src = p.program => e.class = ClaimedClass(p.program)

\* C2, the part the code keeps: every entry that is printed carries the
\* classification the precedence gives for its record.
C2_PrintedByPrecedence ==
    \A e \in AllEntries : e.class = ClaimedClass(e.src)

\* C3 -- for a printed program that is neither imported nor manual, the pass
\* name printed is "nothing found!" if its rule identifier is absent from the
\* rules mapping, and otherwise the name the mapping holds for it.
C3_PassNameFromMapping ==
    \A e \in AllEntries :
        ClaimedClass(e.src) = "pass" =>
            e.pass_name = Some(IF e.src.RuleID = None \/ e.src.RuleID[1] \notin DOMAIN passes
                               THEN NOTHING_FOUND
                               ELSE passes[e.src.RuleID[1]])

\* C4 -- a printed program that carries ImportPath is shown as an import
\* followed by its file name, the name the server holds for its file.
C4_ImportShowsFileName ==
    \A e \in AllEntries :
        e.src.ImportPath # None =>
            /\ e.class = "import"
            /\ e.file = Some(MediaInfo(IF TruthySeq(e.src.FileID)
                                       THEN e.src.FileID[1] ELSE e.src.ID).format.filename)

\* C5 -- in a run that reached the report and is over, the scheduled section
\* is printed iff a scheduled job matched, the library section iff a library
\* file matched, the scheduled one first, and "no matches found." iff neither
\* matched, the run then ending with exit code 0.
C5_SectionsIffMatches ==
    ReportRunOver =>
        LET matched(k) == \E rec \in Range(Collection(k)) :
                is_a_match(rec, argv.title[1], argv.season_number, argv.episode_number)
        IN  /\ Printed("scheduled_header") <=> matched("scheduled")
            /\ Printed("library_header") <=> matched("library")
            /\ (Printed("scheduled_header") /\ Printed("library_header"))
                  => HeaderAt("scheduled") < HeaderAt("library")
            /\ Printed("no_matches") <=> (~matched("scheduled") /\ ~matched("library"))
            /\ (~matched("scheduled") /\ ~matched("library")) => exit_code = Some(0)

\* C5, the part the code keeps: the same, for the runs that no exception ends.
C5_SectionsIffMatchesUnlessRaised ==
    fault = "none" => C5_SectionsIffMatches

\* C6 as stated -- a run that reaches the report has issued three or four
\* network calls in all.
C6_ThreeOrFourCalls ==
    ReachedReport => Len(calls) \in {3, 4}

\* C6 as amended -- a run that reaches the report has issued, one after
\* another: the rules request, the jobs request, one media-info lookup per
\* matched non-skipped job that has no non-empty FileID and no "-" in its ID,
\* the files request, and one such lookup per matched library file.
C6_CallsAreThreePlusLookups ==
    ReachedReport =>
        calls = <<"rules", "jobs">> \o Rep("mediainfo", Lookups(NotSkipped(server.jobs)))
                \o <<"files">> \o Rep("mediainfo", Lookups(server.files))

C6_FiveCallsWitness ==
    /\ pc = "exited" /\ fault = "none" /\ exit_code = Some(0)
    /\ Printed("program")
    /\ Len(calls) >= 5

\* C7 -- a run over records that lack optional fields (Airing.Raw, startTime
\* inside it, FileID, JobID, RuleID, ...) that reached the report completes
\* it: no exception ends it and it exits with code 0.
C7_AbsentFieldsNeverRaise ==
    ReportRunOver => fault = "none" /\ exit_code = Some(0)

\* C7, the part the code keeps: only a manual recording that has no file name
\* and whose Airing.Raw is non-empty without startTime raises.
C7_OnlyManualWithoutStartTimeRaises ==
    fault = "KeyError" =>
        LET rec == pending[idx].program
        IN  /\ ClaimedClass(rec) = "manual"
            /\ rec.Airing.Raw # None
            /\ DOMAIN rec.Airing.Raw[1] # {}
            /\ "startTime" \notin DOMAIN rec.Airing.Raw[1]

\* C8 -- with the version flag set the run makes no network call, prints no
\* server URL and no report, and ends having printed the version string only,
\* with exit code 0.
C8_VersionPrintsAndExits ==
    argv.version =>
        /\ calls = <<>>
        /\ ~Printed("server_url")
        /\ ~ReportPrinted
        /\ pc = "exited" => out = <<Line(VERSION)>> /\ exit_code = Some(0)

\* C8, the part the code keeps: the same, for the command lines that give a
\* title.
C8_VersionWithTitle ==
    argv.title # None => C8_VersionPrintsAndExits

\* C9 -- a skipped job never appears in the scheduled section, and when the
\* report is over every non-skipped job that matches appears there.
C9_SkippedNeverOthersAlways ==
    /\ \A job \in Range(server.jobs) :
          job.Skipped => job \notin SectionSources("scheduled")
    /\ ReportRunOver =>
          \A job \in Range(server.jobs) :
              (~job.Skipped /\ ClaimedMatch(job)) => job \in SectionSources("scheduled")

\* C9, the part the code keeps: no skipped job in the scheduled section, and
\* every non-skipped matching job there when no exception ended the run.
C9_SkippedNeverOthersUnlessRaised ==
    /\ \A job \in Range(server.jobs) :
          job.Skipped => job \notin SectionSources("scheduled")
    /\ (ReportRunOver /\ fault = "none") =>
          \A job \in Range(server.jobs) :
              (~job.Skipped /\ is_a_match(job, argv.title[1], argv.season_number,
                                        argv.episode_number))
                  => job \in SectionSources("scheduled")

\* C10 -- the requests are issued in the order rules, jobs, files; when a
\* line of the report is printed the three of them have been answered and no
\* request follows; a run that a network fault ended has printed no report
\* section and no "no matches found.".
C10_NetworkBeforeReport ==
    /\ [](/\ IsPrefix(ListCalls, <<"rules", "jobs", "files">>)
          /\ ReportPrinted => ListCalls = <<"rules", "jobs", "files">>
          /\ fault = "network" => ~ReportPrinted)
    /\ [][ReportPrinted' => calls' = calls]_vars

C10_ReportAfterLookupsWitness ==
    /\ Printed("scheduled_header") /\ Printed("library_header")
    /\ Len(calls) >= 4
    /\ pc = "exited" /\ fault = "none"

====
